---- MODULE Spec2Model ----
(***************************************************************************)
(* TransactionManager of src/transaction.py as a state machine.            *)
(*                                                                         *)
(* The program state is the manager's transaction_stack and                *)
(* transaction_log and the process clock read by datetime.now().  The      *)
(* scoped wrapper transaction() is a context manager: the `with` bodies    *)
(* that are currently open are kept in `wrappers`, and an exception that   *)
(* is travelling out of a `with` body is kept in `pending`.                *)
(*                                                                         *)
(* History variables (not read by any guard or assignment of program       *)
(* state): `owner`, `closedBy`, `failed`, `executed`, `last`, and the      *)
(* field `fid` of stack entries, log entries and wrappers, which names the *)
(* begin_transaction() call that created the entry.                        *)
(***************************************************************************)
EXTENDS Integers, Sequences, FiniteSets

VARIABLES
    stack,      \* transaction_stack: one list of rollback actions per open frame
    log,        \* transaction_log: one dict per frame begun (until pruned)
    now,        \* the value datetime.now() returns, in days
    wrappers,   \* the open `with transaction():` blocks, outermost first
    pending,    \* the exception travelling out of the innermost `with` body
    executed,   \* every compensating action invoked so far, in invocation order
    owner,      \* owner[r]: the frame that rollback action r was registered in
    closedBy,   \* closedBy[f]: how frame f left the stack ("open" while on it)
    failed,     \* the rollback actions that raised when invoked
    last,       \* what the last operation was and did
    cache,      \* CacheManager.cache: key -> [data, timestamp]
    ttl,        \* CacheManager.ttl, in seconds
    clock,      \* the value datetime.now() returns to the cache, in seconds
    written,    \* written[key]: the most recent set(key, value) and its time
    got         \* what the last cache operation was and returned

\* The state of the TransactionManager and what is recorded about it
mvars == <<stack, log, now, wrappers, pending, executed, owner, closedBy, failed, last>>

\* The state of the CacheManager and what is recorded about it
cvars == <<cache, ttl, clock, written, got>>

vars == <<mvars, cvars>>

----------------------------------------------------------------------------
(* Bounds of the model *)

\* begin_transaction() calls in a run (direct or by the wrapper)
MaxFrames == 2

\* add_rollback_action() calls in a run
MaxRegs == 3

\* add_action() entries held by the log at a time
MaxAudit == 1

\* the cache's clock runs from second 0 to second MaxClock
MaxClock == 3

\* the ttl a CacheManager is constructed with, in 0..MaxTtl
MaxTtl == 2

\* the clock runs from day 0 to day MaxTime
MaxTime == 1

----------------------------------------------------------------------------
(* Values *)

NoTime == -1

NoExc == "none"

WorkExc == "E"

IndexExc == "IndexError"

RollbackFailed == "Rollback failed"

TransactionFailed == "Transaction failed"

ActionTypes == {"create"}

DetailValues == {"d1"}

----------------------------------------------------------------------------
(* Sequence helpers *)

Reversed(s) == [i \in 1..Len(s) |-> s[Len(s) + 1 - i]]

Prefix(s, n) == [i \in 1..n |-> s[i]]

ButLast(s) == Prefix(s, Len(s) - 1)

\* older_than_days: one value beyond the clock's range keeps every frame
Days == 0..(MaxTime + 1)

----------------------------------------------------------------------------
(* Data *)

\* The dict begin_transaction appends to transaction_log; the key 'end_time'
\* is absent until the entry is closed (NoTime).
NewLogEntry(f, t) ==
    [fid |-> f, start_time |-> t, actions |-> <<>>, status |-> "in_progress",
     end_time |-> NoTime]

\* The audit entry add_rollback_action appends: no 'details' key.
RollbackAudit(t) == [type |-> "rollback_action", details |-> "absent", timestamp |-> t]

\* The audit entry add_action appends.
ActionAudit(ty, d, t) == [type |-> ty, details |-> d, timestamp |-> t]

\* transaction_log[-1]['actions'].append(e)
AppendAudit(lg, e) == [lg EXCEPT ![Len(lg)].actions = Append(@, e)]

\* if self.transaction_log: transaction_log[-1]['status'] = st; ['end_time'] = t
CloseLast(lg, st, t) ==
    IF lg = <<>> THEN lg
    ELSE [lg EXCEPT ![Len(lg)].status = st, ![Len(lg)].end_time = t]

\* Variant: the loop runs the actions in registration order.
RunOrderForward(acts) == acts

\* for action in reversed(actions)
RunOrder(acts) == Reversed(acts)

\* Variant: the loop logs a failure and goes on to the remaining actions.
InvokedBestEffort(order, k) == order

\* Variant: the loop invokes a raising action a second time before giving up.
InvokedRetry(order, k) == IF k = 0 THEN order ELSE Append(Prefix(order, k), order[k])

\* The actions the loop of rollback() invokes when the k-th one in run order
\* raises (k = 0: none raises): the raise leaves the loop.
Invoked(order, k) == IF k = 0 THEN order ELSE Prefix(order, k)

\* cutoff_date = datetime.now() - timedelta(days=older_than_days)
Cutoff(t, d) == t - d

\* Variant: the comprehension keeps a frame that starts at the cutoff.
PrunedKeepsCutoff(lg, t, d) == SelectSeq(lg, LAMBDA e : e.start_time >= Cutoff(t, d))

\* [log for log in self.transaction_log if log['start_time'] > cutoff_date]
Pruned(lg, t, d) == SelectSeq(lg, LAMBDA e : e.start_time > Cutoff(t, d))

\* The add_action() entries in the log
RECURSIVE NAudits(_)
NAudits(lg) ==
    IF lg = <<>> THEN 0
    ELSE NAudits(Tail(lg))
         + Cardinality({i \in 1..Len(Head(lg).actions) :
                           Head(lg).actions[i].type # "rollback_action"})

Top == stack[Len(stack)]

NextFid == Len(closedBy) + 1

NextReg == Len(owner) + 1

\* Whether the compensating actions may raise, and which: the position in
\* run order of the one that raises, 0 when none does.
FailChoices == IF stack = <<>> THEN {0} ELSE 0..Len(Top.acts)

\* An exception leaving an operation called from a `with` body travels on
\* towards the wrapper; called from outside any wrapper it reaches the caller.
Travelling(kind) == IF wrappers = <<>> THEN NoExc ELSE kind

\* What the caller of the last operation saw: the operation, the exception
\* it raised, the exception it had caught (the wrapper's except clause) and
\* the compensating action that raised in it (0: none).
\* `days` is the older_than_days of a clear_logs call (0 for the others).
Observed(op, raised, cause, halt) ==
    [op |-> op, raised |-> raised, cause |-> cause, halt |-> halt, days |-> 0]

----------------------------------------------------------------------------
(* The methods of TransactionManager, as effects on stack, log, executed,   *)
(* closedBy and failed                                                      *)

\* begin_transaction()
BeginEffect ==
    /\ stack' = Append(stack, [fid |-> NextFid, acts |-> <<>>])
    /\ log' = Append(log, NewLogEntry(NextFid, now))
    /\ closedBy' = Append(closedBy, "open")

\* Variant: commit() runs the frame's compensating actions as it pops it.
CommitRunsActions ==
    IF stack # <<>>
    THEN /\ stack' = ButLast(stack)
         /\ log' = CloseLast(log, "committed", now)
         /\ closedBy' = [closedBy EXCEPT ![Top.fid] = "commit"]
         /\ executed' = executed \o RunOrder(Top.acts)
         /\ UNCHANGED failed
    ELSE UNCHANGED <<stack, log, closedBy, executed, failed>>

\* Variant: commit() tests the log before it pops the stack.
CommitNeedsLog ==
    IF stack # <<>> /\ log # <<>>
    THEN /\ stack' = ButLast(stack)
         /\ log' = CloseLast(log, "committed", now)
         /\ closedBy' = [closedBy EXCEPT ![Top.fid] = "commit"]
         /\ UNCHANGED <<executed, failed>>
    ELSE UNCHANGED <<stack, log, closedBy, executed, failed>>

\* Variant: only the pop is guarded by the stack; the log entry is closed
\* whenever the log holds one.
CommitClosesUnguarded ==
    IF stack # <<>>
    THEN /\ stack' = ButLast(stack)
         /\ log' = CloseLast(log, "committed", now)
         /\ closedBy' = [closedBy EXCEPT ![Top.fid] = "commit"]
         /\ UNCHANGED <<executed, failed>>
    ELSE /\ log' = CloseLast(log, "committed", now)
         /\ UNCHANGED <<stack, closedBy, executed, failed>>

\* commit()
CommitEffect ==
    IF stack # <<>>
    THEN /\ stack' = ButLast(stack)
         /\ log' = CloseLast(log, "committed", now)
         /\ closedBy' = [closedBy EXCEPT ![Top.fid] = "commit"]
         /\ UNCHANGED <<executed, failed>>
    ELSE UNCHANGED <<stack, log, closedBy, executed, failed>>

\* Variant: rollback() goes on with the actions of the enclosing frame.
RollbackRunsEnclosing(k) ==
    IF stack # <<>>
    THEN /\ stack' = ButLast(stack)
         /\ log' = CloseLast(log, "rolled_back", now)
         /\ closedBy' = [closedBy EXCEPT ![Top.fid] = "rollback"]
         /\ executed' = executed \o Invoked(RunOrder(Top.acts), k)
                           \o (IF k = 0 /\ Len(stack) > 1
                               THEN RunOrder(stack[Len(stack) - 1].acts) ELSE <<>>)
         /\ failed' = IF k = 0 THEN failed ELSE failed \cup {RunOrder(Top.acts)[k]}
    ELSE UNCHANGED <<stack, log, closedBy, executed, failed>>

\* Variant: rollback() pops the frame after the loop, so a raising action
\* leaves it on the stack.
RollbackPopsAfterLoop(k) ==
    IF stack # <<>>
    THEN /\ stack' = IF k = 0 THEN ButLast(stack) ELSE stack
         /\ log' = CloseLast(log, "rolled_back", now)
         /\ closedBy' = IF k = 0 THEN [closedBy EXCEPT ![Top.fid] = "rollback"]
                        ELSE closedBy
         /\ executed' = executed \o Invoked(RunOrder(Top.acts), k)
         /\ failed' = IF k = 0 THEN failed ELSE failed \cup {RunOrder(Top.acts)[k]}
    ELSE UNCHANGED <<stack, log, closedBy, executed, failed>>

\* rollback(), the k-th compensating action in run order raising (0: none)
RollbackEffect(k) ==
    IF stack # <<>>
    THEN /\ stack' = ButLast(stack)
         /\ log' = CloseLast(log, "rolled_back", now)
         /\ closedBy' = [closedBy EXCEPT ![Top.fid] = "rollback"]
         /\ executed' = executed \o Invoked(RunOrder(Top.acts), k)
         /\ failed' = IF k = 0 THEN failed ELSE failed \cup {RunOrder(Top.acts)[k]}
    ELSE UNCHANGED <<stack, log, closedBy, executed, failed>>

\* The compensating action that raises in rollback() (0: none)
Halt(k) == IF k = 0 THEN 0 ELSE RunOrder(Top.acts)[k]

RollbackRaises(k) == IF k = 0 THEN NoExc ELSE RollbackFailed

----------------------------------------------------------------------------
(* CacheManager: values and pure parts *)

\* the default of the ttl parameter
DefaultTtl == 3600

TtlValues == 0..MaxTtl

\* Keys are strings, modelled as sequences of characters
Keys == {<<"a">>, <<"a", "b">>}

\* The patient ids clear_patient_cache is called with
PatientIds == {<<>>, <<"a">>, <<"b">>}

\* The values stored (dicts in the source)
Values == {"v1", "v2"}

None == "None"

\* patient_id in key: sub is a contiguous part of the string s
Contains(sub, s) ==
    \E i \in 1..(Len(s) - Len(sub) + 1) : SubSeq(s, i, i + Len(sub) - 1) = sub

\* Variant: an entry expires as soon as its age reaches the ttl.
ExpiredAtTtl(entry, t) == t - entry.timestamp >= ttl

\* datetime.now() - entry['timestamp'] > timedelta(seconds=self.ttl)
Expired(entry, t) == t - entry.timestamp > ttl

\* del d[key] for the keys in gone
Without(d, gone) == [k \in (DOMAIN d) \ gone |-> d[k]]

\* d[key] = e
With(d, key, e) == [k \in (DOMAIN d) \cup {key} |-> IF k = key THEN e ELSE d[k]]

\* What a cache operation was called with and what it returned
Returned(op, key, ret) == [op |-> op, key |-> key, ret |-> ret]

----------------------------------------------------------------------------
(* Operations *)

ManagerInit ==
    /\ stack = <<>>
    /\ log = <<>>
    /\ now = 0
    /\ wrappers = <<>>
    /\ pending = NoExc
    /\ executed = <<>>
    /\ owner = <<>>
    /\ closedBy = <<>>
    /\ failed = {}
    /\ last = Observed("init", NoExc, NoExc, 0)

\* CacheManager(ttl)
CacheInit(t) ==
    /\ cache = <<>>
    /\ ttl = t
    /\ clock = 0
    /\ written = <<>>
    /\ got = Returned("init", <<>>, None)

\* A TransactionManager, beside a CacheManager built with the default ttl
Init == ManagerInit /\ CacheInit(DefaultTtl)

BeginTransaction ==
    /\ pending = NoExc
    /\ NextFid <= MaxFrames
    /\ BeginEffect
    /\ last' = Observed("begin", NoExc, NoExc, 0)
    /\ UNCHANGED <<now, wrappers, pending, executed, owner, failed>>
    /\ UNCHANGED cvars

\* add_rollback_action(action): with an open frame and an empty log the
\* append to the stack entry is followed by transaction_log[-1] raising
\* IndexError.
AddRollbackAction ==
    /\ pending = NoExc
    /\ NextReg <= MaxRegs
    /\ IF stack # <<>>
       THEN /\ stack' = [stack EXCEPT ![Len(stack)].acts = Append(@, NextReg)]
            /\ owner' = Append(owner, Top.fid)
            /\ IF log # <<>>
               THEN /\ log' = AppendAudit(log, RollbackAudit(now))
                    /\ pending' = NoExc
                    /\ last' = Observed("add_rollback_action", NoExc, NoExc, 0)
               ELSE /\ log' = log
                    /\ pending' = Travelling(IndexExc)
                    /\ last' = Observed("add_rollback_action", IndexExc, NoExc, 0)
       ELSE /\ UNCHANGED <<stack, owner, log, pending>>
            /\ last' = Observed("add_rollback_action", NoExc, NoExc, 0)
    /\ UNCHANGED <<now, wrappers, executed, closedBy, failed>>
    /\ UNCHANGED cvars

\* add_action(action_type, details): guarded by the log, not by the stack
AddAction ==
    /\ pending = NoExc
    /\ \E ty \in ActionTypes, d \in DetailValues :
         IF log # <<>>
         THEN /\ NAudits(log) < MaxAudit
              /\ log' = AppendAudit(log, ActionAudit(ty, d, now))
              /\ last' = Observed("add_action", NoExc, NoExc, 0)
         ELSE /\ log' = log
              /\ last' = Observed("add_action", NoExc, NoExc, 0)
    /\ UNCHANGED <<stack, now, wrappers, pending, executed, owner, closedBy, failed>>
    /\ UNCHANGED cvars

Commit ==
    /\ pending = NoExc
    /\ CommitEffect
    /\ last' = Observed("commit", NoExc, NoExc, 0)
    /\ UNCHANGED <<now, wrappers, pending, owner>>
    /\ UNCHANGED cvars

Rollback ==
    /\ pending = NoExc
    /\ \E k \in FailChoices :
         /\ RollbackEffect(k)
         /\ pending' = Travelling(RollbackRaises(k))
         /\ last' = Observed("rollback", RollbackRaises(k), NoExc, Halt(k))
    /\ UNCHANGED <<now, wrappers, owner>>
    /\ UNCHANGED cvars

ClearLogs ==
    /\ pending = NoExc
    /\ \E d \in Days :
         /\ log' = Pruned(log, now, d)
         /\ last' = [Observed("clear_logs", NoExc, NoExc, 0) EXCEPT !.days = d]
    /\ UNCHANGED <<stack, now, wrappers, pending, executed, owner, closedBy, failed>>
    /\ UNCHANGED cvars

\* The clock advances between two calls.
Tick ==
    /\ pending = NoExc
    /\ now < MaxTime
    /\ now' = now + 1
    /\ last' = Observed("tick", NoExc, NoExc, 0)
    /\ UNCHANGED <<stack, log, wrappers, pending, executed, owner, closedBy, failed>>
    /\ UNCHANGED cvars

----------------------------------------------------------------------------
(* The scoped wrapper: with manager.transaction(): <body>                    *)

\* Entering the `with`: begin_transaction(), then the body starts.
TxEnter ==
    /\ pending = NoExc
    /\ NextFid <= MaxFrames
    /\ BeginEffect
    /\ wrappers' = Append(wrappers, [fid |-> NextFid, depth |-> Len(stack)])
    /\ last' = Observed("tx_enter", NoExc, NoExc, 0)
    /\ UNCHANGED <<now, pending, executed, owner, failed>>
    /\ UNCHANGED cvars

\* The body ends without raising: commit().
TxExit ==
    /\ pending = NoExc
    /\ wrappers # <<>>
    /\ CommitEffect
    /\ wrappers' = ButLast(wrappers)
    /\ last' = Observed("tx_exit", NoExc, NoExc, 0)
    /\ UNCHANGED <<now, pending, owner>>
    /\ UNCHANGED cvars

\* The body's own code raises a failure E.
WorkRaise ==
    /\ pending = NoExc
    /\ wrappers # <<>>
    /\ pending' = WorkExc
    /\ last' = Observed("work_raise", WorkExc, NoExc, 0)
    /\ UNCHANGED <<stack, log, now, wrappers, executed, owner, closedBy, failed>>
    /\ UNCHANGED cvars

\* The body catches an exception raised by an operation it called.
WorkCatch ==
    /\ pending \notin {NoExc, WorkExc}
    /\ wrappers # <<>>
    /\ pending' = NoExc
    /\ last' = Observed("work_catch", NoExc, pending, 0)
    /\ UNCHANGED <<stack, log, now, wrappers, executed, owner, closedBy, failed>>
    /\ UNCHANGED cvars

\* Variant: the except clause swallows a failure of rollback().
ExceptAlwaysTransactionFailed(k) == TransactionFailed

\* What the except clause raises once rollback() is over: a rollback that
\* raised leaves the clause with its own TransactionError.
ExceptRaises(k) == IF k = 0 THEN TransactionFailed ELSE RollbackFailed

\* An exception leaves the body: except Exception: rollback(); raise.
TxExcept ==
    /\ pending # NoExc
    /\ wrappers # <<>>
    /\ \E k \in FailChoices :
         /\ RollbackEffect(k)
         /\ wrappers' = ButLast(wrappers)
         /\ pending' = IF Len(wrappers) > 1 THEN ExceptRaises(k) ELSE NoExc
         /\ last' = Observed("tx_except", ExceptRaises(k), pending, Halt(k))
    /\ UNCHANGED <<now, owner>>
    /\ UNCHANGED cvars

Next ==
    \/ BeginTransaction
    \/ AddRollbackAction
    \/ AddAction
    \/ Commit
    \/ Rollback
    \/ ClearLogs
    \/ Tick
    \/ TxEnter
    \/ TxExit
    \/ WorkRaise
    \/ WorkCatch
    \/ TxExcept

Spec == Init /\ [][Next]_vars

\* The runs within one reading of the clock that add no plain audit entry:
\* every operation that changes the stack, runs a compensating action or
\* raises, and clear_logs (which empties the log under open frames).
NextStack ==
    \/ BeginTransaction
    \/ AddRollbackAction
    \/ Commit
    \/ Rollback
    \/ ClearLogs
    \/ TxEnter
    \/ TxExit
    \/ WorkRaise
    \/ WorkCatch
    \/ TxExcept

SpecStack == Init /\ [][NextStack]_vars

\* The runs that register no compensating action and use no wrapper: the
\* operations that write the log, with the clock advancing.
NextLog ==
    \/ BeginTransaction
    \/ AddAction
    \/ Commit
    \/ Rollback
    \/ ClearLogs
    \/ Tick

SpecLog == Init /\ [][NextLog]_vars

----------------------------------------------------------------------------
(* CacheManager operations *)

\* get(key)
Get ==
    \E key \in Keys :
        /\ IF key \notin DOMAIN cache
           THEN /\ cache' = cache
                /\ got' = Returned("get", key, None)
           ELSE IF Expired(cache[key], clock)
                THEN /\ cache' = Without(cache, {key})
                     /\ got' = Returned("get", key, None)
                ELSE /\ cache' = cache
                     /\ got' = Returned("get", key, cache[key].data)
        /\ UNCHANGED <<ttl, clock, written>>
        /\ UNCHANGED mvars

\* set(key, value)
Set ==
    \E key \in Keys, value \in Values :
        /\ cache' = With(cache, key, [data |-> value, timestamp |-> clock])
        /\ written' = With(written, key, [data |-> value, at |-> clock])
        /\ got' = Returned("set", key, None)
        /\ UNCHANGED <<ttl, clock>>
        /\ UNCHANGED mvars

\* clear_expired()
ClearExpired ==
    /\ cache' = Without(cache, {k \in DOMAIN cache : Expired(cache[k], clock)})
    /\ got' = Returned("clear_expired", <<>>, None)
    /\ UNCHANGED <<ttl, clock, written>>
    /\ UNCHANGED mvars

\* clear_patient_cache(patient_id)
ClearPatientCache ==
    \E patient_id \in PatientIds :
        /\ cache' = Without(cache, {k \in DOMAIN cache : Contains(patient_id, k)})
        /\ got' = Returned("clear_patient_cache", patient_id, None)
        /\ UNCHANGED <<ttl, clock, written>>
        /\ UNCHANGED mvars

\* A second passes between two calls.
Elapse ==
    /\ clock < MaxClock
    /\ clock' = clock + 1
    /\ got' = Returned("elapse", <<>>, None)
    /\ UNCHANGED <<cache, ttl, written>>
    /\ UNCHANGED mvars

\* A CacheManager built with any ttl
InitCache == ManagerInit /\ \E t \in TtlValues : CacheInit(t)

NextCache ==
    \/ Get
    \/ Set
    \/ ClearExpired
    \/ ClearPatientCache
    \/ Elapse

SpecCache == InitCache /\ [][NextCache]_vars

----------------------------------------------------------------------------
(* Vocabulary of the properties *)

Frames == 1..Len(closedBy)

Range(s) == {s[i] : i \in 1..Len(s)}

\* The rollback actions registered in frame f; a later registration has a
\* larger number.
RegsOf(f) == {r \in 1..Len(owner) : owner[r] = f}

\* The invocations of frame f's rollback actions, in invocation order
RunsOf(f) == SelectSeq(executed, LAMBDA r : owner[r] = f)

\* How many times rollback action r has been invoked
Count(r) == Cardinality({i \in 1..Len(executed) : executed[i] = r})

ClosingOps == {"commit", "rollback", "tx_exit", "tx_except"}

CommitOps == {"commit", "tx_exit"}

BeginOps == {"begin", "tx_enter"}

StatusSetBy(op) == IF op \in CommitOps THEN "committed" ELSE "rolled_back"

\* The frame a wrapper began is the one its commit() or rollback() pops: the
\* body closed every frame it opened and no frame it did not open.
WrapperOnTop ==
    /\ wrappers # <<>>
    /\ stack # <<>>
    /\ Top.fid = wrappers[Len(wrappers)].fid

----------------------------------------------------------------------------
(* C1 *)

\* C1: a frame popped by rollback() none of whose actions raised has had
\* every action registered in it invoked exactly once, the later registered
\* the earlier invoked.
C1_ReverseOrder ==
    \A f \in Frames :
        (closedBy[f] = "rollback" /\ RegsOf(f) \cap failed = {}) =>
            LET ran == RunsOf(f) IN
            /\ Len(ran) = Cardinality(RegsOf(f))
            /\ Range(ran) = RegsOf(f)
            /\ \A i, j \in 1..Len(ran) : i < j => ran[i] > ran[j]

C1_Witness ==
    \E f \in Frames :
        /\ closedBy[f] = "rollback"
        /\ RegsOf(f) \cap failed = {}
        /\ Cardinality(RegsOf(f)) >= 3
        /\ Len(RunsOf(f)) >= 3

----------------------------------------------------------------------------
(* C2 *)

\* C2: when a compensating action r raises, its frame has been popped by
\* rollback(), the actions registered before r in that frame are never
\* invoked, r and the actions registered after it have been invoked exactly
\* once, and the call raises 'Rollback failed'.
C2_HaltOnFailure ==
    /\ \A r \in failed :
          /\ closedBy[owner[r]] = "rollback"
          /\ \A q \in RegsOf(owner[r]) : Count(q) = IF q < r THEN 0 ELSE 1
    /\ last.halt # 0 =>
          /\ last.halt \in failed
          /\ last.op \in {"rollback", "tx_except"}
          /\ last.raised = RollbackFailed

\* A, B, C registered in one frame, B raised: C and B invoked, A not.
C2_Witness ==
    /\ last.op = "rollback"
    /\ last.halt # 0
    /\ \E a, c \in RegsOf(owner[last.halt]) :
          /\ a < last.halt /\ last.halt < c
          /\ Count(a) = 0 /\ Count(c) = 1 /\ Count(last.halt) = 1

----------------------------------------------------------------------------
(* C3 *)

\* C3: no invoked action belongs to a frame popped by commit(), in any
\* state after any step, and a commit() invokes nothing.
C3_CommitDiscards ==
    [][ /\ \A i \in 1..Len(executed') : closedBy'[owner'[executed'[i]]] # "commit"
        /\ last'.op \in CommitOps => executed' = executed ]_vars

\* Frame f registered q and was committed while the enclosing frame g was
\* open; g registered r afterwards and its rollback() invoked r.
C3_Witness ==
    \E f, g \in Frames :
        /\ g < f
        /\ closedBy[f] = "commit"
        /\ closedBy[g] = "rollback"
        /\ \E q \in RegsOf(f), r \in RegsOf(g) : q < r /\ Count(r) = 1 /\ Count(q) = 0

----------------------------------------------------------------------------
(* C4 *)

\* C4: the stack depth is the number of begin calls whose frame no commit
\* or rollback has popped; a begin raises nothing, adds one to the depth
\* and appends one in_progress entry to the log; a commit or rollback on a
\* non-empty stack takes one off; every other step leaves the depth.
C4_Depth ==
    [][ /\ Len(stack') = Cardinality({f \in 1..Len(closedBy') : closedBy'[f] = "open"})
        /\ last'.op \in BeginOps =>
              /\ last'.raised = NoExc
              /\ Len(stack') = Len(stack) + 1
              /\ Len(closedBy') = Len(closedBy) + 1
              /\ Len(log') = Len(log) + 1
              /\ SubSeq(log', 1, Len(log)) = log
              /\ log'[Len(log')].status = "in_progress"
        /\ (last'.op \in ClosingOps /\ stack # <<>>) =>
              /\ Len(stack') = Len(stack) - 1
              /\ Len(closedBy') = Len(closedBy)
        /\ (last'.op \notin BeginOps /\ ~(last'.op \in ClosingOps /\ stack # <<>>)) =>
              /\ Len(stack') = Len(stack)
              /\ closedBy' = closedBy ]_vars

\* Two begins, then a commit or rollback that popped the inner frame: depth 1.
C4_Witness ==
    /\ Len(closedBy) = 2
    /\ closedBy[1] = "open"
    /\ closedBy[2] # "open"
    /\ Len(stack) = 1
    /\ last.op \in ClosingOps

----------------------------------------------------------------------------
(* C5 *)

\* C5: a commit() or rollback() on a non-empty stack sets the status
\* (committed, rolled_back) and the end time on the log entry of the frame
\* it pops and leaves the status of every other entry.
C5_ClosesPoppedFrame ==
    [][ (last'.op \in ClosingOps /\ stack # <<>>) =>
            /\ Len(log') = Len(log)
            /\ \A i \in 1..Len(log) :
                  IF log[i].fid = Top.fid
                  THEN /\ log'[i].status = StatusSetBy(last'.op)
                       /\ log'[i].end_time = now
                  ELSE log'[i].status = log[i].status ]_vars

----------------------------------------------------------------------------
(* C6 *)

\* C6: a log entry whose status is committed or rolled_back keeps its
\* status and its end time in every later step.
C6_ClosedOnce ==
    [][ \A i \in 1..Len(log), j \in 1..Len(log') :
            (log[i].fid = log'[j].fid /\ log[i].status # "in_progress") =>
                /\ log'[j].status = log[i].status
                /\ log'[j].end_time = log[i].end_time ]_vars

----------------------------------------------------------------------------
(* C7 *)

\* C7: when a compensating action has just raised in rollback(), its frame
\* is off the stack and the frame's log entry has status rolled_back and an
\* end time.
C7_RecordedBeforeCompensation ==
    last.halt # 0 =>
        /\ closedBy[owner[last.halt]] = "rollback"
        /\ \A i \in 1..Len(stack) : stack[i].fid # owner[last.halt]
        /\ \A i \in 1..Len(log) :
              log[i].fid = owner[last.halt] =>
                  /\ log[i].status = "rolled_back"
                  /\ log[i].end_time # NoTime

----------------------------------------------------------------------------
(* C8 *)

\* C8: when the body of a wrapper raises E, with the wrapper's frame on top
\* of the stack and no compensating action raising, the frame's
\* compensations are invoked in reverse registration order, the frame's log
\* entry gets status rolled_back, and 'Transaction failed' is raised.
C8_WrapperFailurePath ==
    [][ (last'.op = "tx_except" /\ last'.cause = WorkExc /\ last'.halt = 0
         /\ WrapperOnTop) =>
            /\ Len(executed') = Len(executed) + Len(Top.acts)
            /\ \A i \in 1..Len(Top.acts) :
                  executed'[Len(executed) + i] = Top.acts[Len(Top.acts) + 1 - i]
            /\ \A j \in 1..Len(log') :
                  log'[j].fid = Top.fid => log'[j].status = "rolled_back"
            /\ last'.raised = TransactionFailed ]_vars

----------------------------------------------------------------------------
(* C9 *)

\* C9: when the body of a wrapper ends without raising, with the wrapper's
\* frame on top of the stack, the frame's log entry gets status committed,
\* no compensating action is invoked and nothing is raised.
C9_WrapperSuccessPath ==
    [][ (last'.op = "tx_exit" /\ WrapperOnTop) =>
            /\ \A j \in 1..Len(log') :
                  log'[j].fid = Top.fid => log'[j].status = "committed"
            /\ executed' = executed
            /\ last'.raised = NoExc
            /\ pending' = NoExc ]_vars

----------------------------------------------------------------------------
(* C10 *)

\* C10: the except clause of the wrapper raises 'Rollback failed' when a
\* compensating action raised in its rollback(), and 'Transaction failed'
\* only when none did; that exception is the one travelling on.
C10_RollbackFailureWins ==
    last.op = "tx_except" =>
        /\ last.raised = IF last.halt # 0 THEN RollbackFailed ELSE TransactionFailed
        /\ wrappers # <<>> => pending = last.raised
        /\ wrappers = <<>> => pending = NoExc

\* The body raised E and a compensating action raised in the rollback.
C10_Witness ==
    /\ last.op = "tx_except"
    /\ last.cause = WorkExc
    /\ last.halt # 0
    /\ last.raised = RollbackFailed

----------------------------------------------------------------------------
(* C11 *)

EmptyStackOps == {"commit", "rollback", "add_rollback_action", "tx_exit", "tx_except"}

\* C11: called with an empty stack, commit(), rollback() and
\* add_rollback_action() (and the wrapper's own commit() and rollback())
\* leave the stack, the whole log and the invocation record as they are, and
\* the three direct calls raise nothing.
C11_NoOpOnEmptyStack ==
    [][ (last'.op \in EmptyStackOps /\ stack = <<>>) =>
            /\ stack' = stack
            /\ log' = log
            /\ executed' = executed
            /\ last'.op \in {"commit", "rollback", "add_rollback_action"} =>
                  (last'.raised = NoExc /\ pending' = NoExc) ]_vars

\* add_rollback_action() has just returned with no frame open and a closed
\* frame's entry in the log.
C11_Witness ==
    /\ last.op = "add_rollback_action"
    /\ stack = <<>>
    /\ log # <<>>
    /\ log[Len(log)].status # "in_progress"
    /\ owner = <<>>

----------------------------------------------------------------------------
(* C12 *)

\* C12: add_action() called with no frame open leaves the log as it is.
C12_AddActionNeedsOpenFrame ==
    [][ (last'.op = "add_action" /\ stack = <<>>) => log' = log ]_vars

----------------------------------------------------------------------------
(* C13 *)

AddOps == {"add_action", "add_rollback_action"}

\* C13: with a frame open, the only log entry whose audit entries an
\* add_action() or add_rollback_action() changes is the entry of the frame
\* on top of the stack, and that entry is in_progress.
C13_OnlyTopFrameAudited ==
    [][ (last'.op \in AddOps /\ stack # <<>>) =>
            /\ Len(log') = Len(log)
            /\ \A i \in 1..Len(log) :
                  log'[i].actions # log[i].actions =>
                      /\ log[i].fid = Top.fid
                      /\ log[i].status = "in_progress" ]_vars

----------------------------------------------------------------------------
(* C14 *)

\* The audit entries in the log
RECURSIVE AuditTotal(_)
AuditTotal(lg) ==
    IF lg = <<>> THEN 0 ELSE Len(Head(lg).actions) + AuditTotal(Tail(lg))

\* C14: with a frame open, an add_action() or add_rollback_action() raises
\* nothing and leaves the log with exactly one audit entry more, stamped no
\* earlier than the start time of the log entry it is appended to.
C14_AuditCompleteness ==
    [][ (last'.op \in AddOps /\ stack # <<>>) =>
            /\ last'.raised = NoExc
            /\ Len(log') = Len(log)
            /\ AuditTotal(log') = AuditTotal(log) + 1
            /\ \A i \in 1..Len(log) :
                  Len(log'[i].actions) > Len(log[i].actions) =>
                      log'[i].actions[Len(log'[i].actions)].timestamp
                          >= log'[i].start_time ]_vars

----------------------------------------------------------------------------
(* C15 *)

\* The position in lg of the entry of frame f
PosOf(lg, f) == CHOOSE i \in 1..Len(lg) : lg[i].fid = f

\* clear_logs leaves the stack alone, every entry of the log after it is an
\* unchanged entry of the log before it, in the same relative order, and
\* the entries that stay are exactly those for which Stays holds.
PrunesExactly(Stays(_)) ==
    /\ stack' = stack
    /\ \A j \in 1..Len(log') : \E i \in 1..Len(log) : log'[j] = log[i]
    /\ \A j, k \in 1..Len(log') :
          j < k => PosOf(log, log'[j].fid) < PosOf(log, log'[k].fid)
    /\ \A i \in 1..Len(log) :
          Stays(log[i]) <=> (\E j \in 1..Len(log') : log'[j] = log[i])

\* C15 as stated: clear_logs(d) removes the entries that start before
\* now - d and keeps the others, the entry that starts at now - d included.
C15_AsStated ==
    [][ last'.op = "clear_logs" =>
            PrunesExactly(LAMBDA e : e.start_time >= now - last'.days) ]_vars

\* C15 amended: clear_logs(d) keeps exactly the entries that start after
\* now - d, whatever their status, unchanged and in order, and leaves the
\* stack; the entry that starts at now - d is removed.
C15_PrunesAtOrBeforeCutoff ==
    [][ last'.op = "clear_logs" =>
            PrunesExactly(LAMBDA e : e.start_time > now - last'.days) ]_vars

\* clear_logs(1) on day 1 has just removed the entry of frame 1, begun on
\* day 0 (at the cutoff) and still open, and kept that of frame 2.
C15_Witness ==
    /\ last.op = "clear_logs"
    /\ last.days = 1
    /\ now = 1
    /\ Len(closedBy) = 2
    /\ closedBy[1] = "open"
    /\ Len(log) = 1
    /\ log[1].fid = 2
    /\ log[1].start_time = 1

----------------------------------------------------------------------------
(* C16 *)

RollbackOps == {"rollback", "tx_except"}

\* The actions a step invoked, in invocation order
NewRuns == SubSeq(executed', Len(executed) + 1, Len(executed'))

\* The step invoked the actions of the frame on top of the stack, the last
\* registered first, stopping at the one that raised (last'.halt) if any.
RanTopInReverse ==
    /\ SubSeq(executed', 1, Len(executed)) = executed
    /\ Len(NewRuns) <= Len(Top.acts)
    /\ \A i \in 1..Len(NewRuns) : NewRuns[i] = Top.acts[Len(Top.acts) + 1 - i]
    /\ last'.halt = 0 => Len(NewRuns) = Len(Top.acts)
    /\ last'.halt # 0 => NewRuns[Len(NewRuns)] = last'.halt

\* C16: a rollback() on a non-empty stack invokes actions of the frame it
\* pops only, all of them in reverse order when none raises, and leaves the
\* entries of the enclosing frames on the stack as they were.
C16_OnlyPoppedFrameRuns ==
    [][ (last'.op \in RollbackOps /\ stack # <<>>) =>
            /\ Len(stack') = Len(stack) - 1
            /\ \A i \in 1..Len(stack') : stack'[i] = stack[i]
            /\ \A i \in 1..Len(NewRuns) : owner[NewRuns[i]] = Top.fid
            /\ RanTopInReverse ]_vars

\* Frame 2 was rolled back inside frame 1 and frame 1 was rolled back
\* later: both ran their own actions, frame 2's first.
C16_Witness ==
    /\ Len(closedBy) = 2
    /\ closedBy[1] = "rollback"
    /\ closedBy[2] = "rollback"
    /\ failed = {}
    /\ Len(executed) = 3
    /\ owner[executed[1]] = 2
    /\ owner[executed[2]] = 1
    /\ owner[executed[3]] = 1
    /\ executed[2] > executed[1]

----------------------------------------------------------------------------
(* C17 *)

WrapperExitOps == {"tx_exit", "tx_except"}

\* C17: when a wrapper is left, by commit() or by rollback() (raising or
\* not), from a body that left the stack one frame deeper than the wrapper
\* found it (the wrapper's own begin), the stack is back at the depth the
\* wrapper found.
C17_WrapperRestoresDepth ==
    [][ (last'.op \in WrapperExitOps
         /\ Len(stack) = wrappers[Len(wrappers)].depth + 1) =>
            Len(stack') = wrappers[Len(wrappers)].depth ]_vars

\* A wrapper whose body opened and closed frame 2 has been left through a
\* rollback() in which an action of frame 1 raised; the stack is empty.
C17_Witness ==
    /\ last.op = "tx_except"
    /\ last.halt # 0
    /\ owner[last.halt] = 1
    /\ Len(closedBy) = 2
    /\ closedBy[2] # "open"
    /\ wrappers = <<>>
    /\ stack = <<>>

----------------------------------------------------------------------------
(* C18 *)

\* C18: when the "Transaction failed" error raised by an inner wrapper
\* leaves the body of an enclosing wrapper whose frame is on top of the
\* stack, the enclosing wrapper raises a TransactionError too, has invoked
\* its frame's actions in reverse order, leaves the stack at the depth it
\* found, and its frame's log entry has status rolled_back.
C18_NestedWrappersUnwind ==
    [][ (last'.op = "tx_except"
         /\ last'.cause = TransactionFailed
         /\ WrapperOnTop) =>
            /\ last'.raised \in {TransactionFailed, RollbackFailed}
            /\ Len(stack') = wrappers[Len(wrappers)].depth
            /\ RanTopInReverse
            /\ \A j \in 1..Len(log') :
                  log'[j].fid = Top.fid => log'[j].status = "rolled_back" ]_vars

----------------------------------------------------------------------------
(* C19 *)

\* C19: every invoked action was registered, no registered action is
\* invoked more than once, and an action that raised was invoked once.
C19_AtMostOnce ==
    /\ \A i \in 1..Len(executed) : executed[i] \in 1..Len(owner)
    /\ \A r \in 1..Len(owner) : Count(r) <= 1
    /\ \A r \in failed : Count(r) = 1

\* After an action raised in a rollback, a second rollback() was called
\* with nothing left on the stack.
C19_Witness ==
    /\ last.op = "rollback"
    /\ last.halt = 0
    /\ failed # {}
    /\ stack = <<>>
    /\ Len(owner) >= 2
    /\ Len(executed) < Len(owner)

----------------------------------------------------------------------------
(* C20 *)

\* The time since the most recent set(key, value), at the cache's clock
Age(key) == clock - written[key].at

\* C20: get(key) returns the value of the most recent set(key, value)
\* exactly when the key is in the cache and that set is at most ttl seconds
\* old, and None otherwise; a get that finds the key expired removes it;
\* every other key keeps its entry.
C20_GetWithinTtl ==
    [][ got'.op = "get" =>
          LET key == got'.key
              fresh == /\ key \in DOMAIN cache
                       /\ key \in DOMAIN written
                       /\ Age(key) <= ttl
          IN  /\ fresh => got'.ret = written[key].data
              /\ ~fresh => got'.ret = None
              /\ (key \in DOMAIN cache /\ ~fresh) => key \notin DOMAIN cache'
              /\ \A k \in Keys \ {key} :
                    /\ (k \in DOMAIN cache') = (k \in DOMAIN cache)
                    /\ k \in DOMAIN cache => cache'[k] = cache[k] ]_vars

\* A get has found its key one second past the ttl and removed it; the
\* other key, set a second later, is still cached at an age of exactly ttl.
C20_Witness ==
    /\ got.op = "get"
    /\ got.ret = None
    /\ got.key \in DOMAIN written
    /\ got.key \notin DOMAIN cache
    /\ ttl >= 1
    /\ Age(got.key) = ttl + 1
    /\ \E k \in DOMAIN cache : k # got.key /\ clock - cache[k].timestamp = ttl

====
